---- MODULE Spec2Model ----
(***************************************************************************)
(* Model of dag-paths: graph construction, path enumeration with temporal  *)
(* aggregation, ranking, timing audit, network metrics and the main        *)
(* pipeline of bin/analyze_dag.py.                                          *)
(*                                                                         *)
(* Node identifiers are modelled by the integers 1..MaxNodes (the code     *)
(* only compares them for equality).  Instants are the integers            *)
(* 1..MaxDate; None is -1 and datetime.min is 0, below every instant.      *)
(* A dict is modelled with its insertion order where the code iterates it. *)
(***************************************************************************)
EXTENDS Integers, Sequences, FiniteSets, TLC

\* ------------------------------------------------------------------ bounds
MaxNodes == 3
MaxDate == 2
MaxK == 3
MaxList == 3
MaxMapped == 2
MaxEntries == 2
MaxRefs == 2
MaxRows == 2

\* ------------------------------------------------------- program constants
\* Python's None (an absent date, an unset degree).
None == -1
\* datetime.min, the sort key of a path without target_date.
datetime_min == 0
\* max_paths of main.
max_paths == 20

Nodes == 1..MaxNodes
Dates == 1..MaxDate
OptDates == {None} \cup Dates

\* ------------------------------------------------------------ list helpers
RECURSIVE SetToSeq(_)
\* The elements of a finite set of integers in ascending order.
SetToSeq(S) ==
    IF S = {} THEN <<>>
    ELSE LET m == CHOOSE x \in S : \A y \in S : x <= y
         IN  <<m>> \o SetToSeq(S \ {m})

Range(s) == {s[i] : i \in 1..Len(s)}

Reverse(s) == [i \in 1..Len(s) |-> s[Len(s) + 1 - i]]

RECURSIVE Concat(_)
\* list.extend over a sequence of lists.
Concat(ss) ==
    IF ss = <<>> THEN <<>> ELSE Head(ss) \o Concat(Tail(ss))

RECURSIVE MaxOf(_)
\* Python's max over a non-empty list.
MaxOf(s) ==
    IF Len(s) = 1 THEN s[1]
    ELSE LET m == MaxOf(Tail(s)) IN IF s[1] >= m THEN s[1] ELSE m

RECURSIVE MinOf(_)
\* Python's min over a non-empty list.
MinOf(s) ==
    IF Len(s) = 1 THEN s[1]
    ELSE LET m == MinOf(Tail(s)) IN IF s[1] <= m THEN s[1] ELSE m

\* ------------------------------------------------------------------- graph
\* nx.DiGraph: nodes in insertion order, adj[u] the successors of u in the
\* order their edges were first added (at most one edge per ordered pair).
EmptyGraph == [nodes |-> <<>>, adj |-> <<>>, attrs |-> <<>>]

\* The attributes of a node that G.add_node(node, **info) never set.
NoAttrs == [type |-> "Unknown", state |-> "Unknown"]

NodeSet(G) == Range(G.nodes)

Succ(G, u) == G.adj[u]

HasEdge(G, u, v) == u \in NodeSet(G) /\ v \in Range(G.adj[u])

EdgeSet(G) == {e \in NodeSet(G) \X NodeSet(G) : HasEdge(G, e[1], e[2])}

\* G.in_degree(n) / G.out_degree(n); a self-loop counts in both.
in_degree(G, n) == Cardinality({u \in NodeSet(G) : HasEdge(G, u, n)})

out_degree(G, n) == Len(G.adj[n])

\* G.add_node(n): a new node goes last, an existing one keeps its place.
add_node(G, n) ==
    IF n \in NodeSet(G) THEN G
    ELSE [nodes |-> Append(G.nodes, n),
          adj |-> [x \in NodeSet(G) \cup {n} |->
                       IF x = n THEN <<>> ELSE G.adj[x]],
          attrs |-> [x \in NodeSet(G) \cup {n} |->
                       IF x = n THEN NoAttrs ELSE G.attrs[x]]]

\* G.add_node(node, **info): the node's type and state are (re)set.
add_node_info(G, n, info) ==
    [add_node(G, n) EXCEPT !.attrs[n] = [type |-> info.type, state |-> info.state]]

\* An add_edge that records every call as an edge of its own, as a
\* multigraph would (faulty variant of add_edge).
add_edge_multi(G, u, v) ==
    LET G2 == add_node(add_node(G, u), v)
    IN  [G2 EXCEPT !.adj[u] = Append(@, v)]

\* G.add_edge(u, v): creates u then v when missing; an existing edge is kept.
add_edge(G, u, v) ==
    LET G2 == add_node(add_node(G, u), v)
    IN  IF v \in Range(G2.adj[u]) THEN G2
        ELSE [G2 EXCEPT !.adj[u] = Append(@, v)]

RECURSIVE add_preds(_, _, _)
add_preds(G, node, preds) ==
    IF preds = <<>> THEN G
    ELSE add_preds(add_edge(G, Head(preds), node), node, Tail(preds))

RECURSIVE add_succs(_, _, _)
add_succs(G, node, succs) ==
    IF succs = <<>> THEN G
    ELSE add_succs(add_edge(G, node, Head(succs)), node, Tail(succs))

RECURSIVE create_dag_from(_, _)
\* The loop of create_dag over data.items(), from graph G on.
create_dag_from(G, data) ==
    IF data = <<>> THEN G
    ELSE LET e  == Head(data)
             G1 == add_node_info(G, e.node, e)
             G2 == add_preds(G1, e.node, e.predecessors)
             G3 == add_succs(G2, e.node, e.successors)
         IN  create_dag_from(G3, Tail(data))

create_dag(data) == create_dag_from(EmptyGraph, data)

\* -------------------------------------------------------- path enumeration
RECURSIVE simple_paths_first(_, _, _, _)
\* A search that stops at the first path it finds (faulty variant of simple_paths_from).
simple_paths_first(G, visited, children, target) ==
    IF children = <<>> THEN <<>>
    ELSE LET child == Head(children)
             rest  == simple_paths_first(G, visited, Tail(children), target)
         IN  IF child \in Range(visited) THEN rest
             ELSE IF child = target THEN <<Append(visited, child)>>
             ELSE LET below == simple_paths_first(G, Append(visited, child),
                                                  G.adj[child], target)
                  IN  IF below # <<>> THEN below ELSE rest

RECURSIVE simple_paths_from(_, _, _, _)
\* The depth-first search of nx.all_simple_paths: `visited` is the path so
\* far, `children` the successors of its last node still to be tried.  A
\* child already on the path is skipped; reaching the target yields a path
\* and, the single target being found, the search does not go below it.
simple_paths_from(G, visited, children, target) ==
    IF children = <<>> THEN <<>>
    ELSE LET child == Head(children)
             rest  == simple_paths_from(G, visited, Tail(children), target)
         IN  IF child \in Range(visited) THEN rest
             ELSE IF child = target THEN <<Append(visited, child)>> \o rest
             ELSE simple_paths_from(G, Append(visited, child),
                                    Succ(G, child), target) \o rest

\* list(nx.all_simple_paths(G, source, target)) for source # target.
all_simple_paths(G, source, target) ==
    simple_paths_from(G, <<source>>, Succ(G, source), target)

\* The pairwise loop without the test source != target, a node counting
\* as a path to itself (faulty variant of all_paths).
all_paths_with_self(G) ==
    Concat([i \in 1..Len(G.nodes) |->
        Concat([j \in 1..Len(G.nodes) |->
            IF G.nodes[i] # G.nodes[j]
            THEN all_simple_paths(G, G.nodes[i], G.nodes[j])
            ELSE <<<<G.nodes[i]>>>>])])

\* Lines 116-128: the pairwise loop, paths appended in loop order.
all_paths(G) ==
    Concat([i \in 1..Len(G.nodes) |->
        Concat([j \in 1..Len(G.nodes) |->
            IF G.nodes[i] # G.nodes[j]
            THEN all_simple_paths(G, G.nodes[i], G.nodes[j])
            ELSE <<>>])])

\* ----------------------------------------------------- temporal aggregation
\* Truthiness of an Optional[datetime] field: every instant is truthy.
IsSet(d) == d # None

PathInfo(nodes, target, start, closed) ==
    [nodes |-> nodes, target_date |-> target, start_date |-> start,
     closed_date |-> closed]

\* Lines 138-149: the dates collected along one path, in path order, from
\* the nodes that are keys of temporal_data.
collect(path, td, field) ==
    LET RECURSIVE go(_)
        go(i) ==
            IF i > Len(path) THEN <<>>
            ELSE IF path[i] \in DOMAIN td /\ IsSet(td[path[i]][field])
                 THEN <<td[path[i]][field]>> \o go(i + 1)
                 ELSE go(i + 1)
    IN  go(1)

\* The date of the last dated node of the path (faulty variant of latest).
latest_last(dates) == IF dates # <<>> THEN dates[Len(dates)] ELSE None

\* Lines 155-157.
latest(dates) == IF dates # <<>> THEN MaxOf(dates) ELSE None

earliest(dates) == IF dates # <<>> THEN MinOf(dates) ELSE None

\* Lines 136-164 for one path: the PathInfo appended for it.
path_info_of(path, td) ==
    PathInfo(path,
             latest(collect(path, td, "target_date")),
             earliest(collect(path, td, "start_date")),
             latest(collect(path, td, "closed_date")))

\* A write-back that reaches every record whose node is in the graph, on the
\* path or not (faulty variant of write_degrees).
write_degrees_every(G, path, td) ==
    [n \in DOMAIN td |->
        IF n \in NodeSet(G)
        THEN [td[n] EXCEPT !.in_degree = in_degree(G, n),
                           !.out_degree = out_degree(G, n)]
        ELSE td[n]]

\* Lines 150-152: the degree write-back for the nodes of one path.
write_degrees(G, path, td) ==
    [n \in DOMAIN td |->
        IF n \in Range(path)
        THEN [td[n] EXCEPT !.in_degree = in_degree(G, n),
                           !.out_degree = out_degree(G, n)]
        ELSE td[n]]

RECURSIVE write_degrees_all(_, _, _)
write_degrees_all(G, paths, td) ==
    IF paths = <<>> THEN td
    ELSE write_degrees_all(G, Tail(paths), write_degrees(G, Head(paths), td))

\* The list find_paths_with_dates returns ([] at the early return of line 132).
find_paths_with_dates(G, td) ==
    LET paths == all_paths(G)
    IN  [i \in 1..Len(paths) |-> path_info_of(paths[i], td)]

\* temporal_data after find_paths_with_dates (it is mutated in place).
temporal_after_find_paths(G, td) == write_degrees_all(G, all_paths(G), td)

\* ------------------------------------------------------------------ ranking
\* key=lambda x: (x.target_date or datetime.min)
sort_key(x) == IF IsSet(x.target_date) THEN x.target_date ELSE datetime_min

RECURSIVE insert_sorted(_, _)
\* One step of the (stable) insertion sort: x goes after every element whose
\* key is not greater than its own.
insert_sorted(s, x) ==
    IF s = <<>> THEN <<x>>
    ELSE IF sort_key(Head(s)) <= sort_key(x)
         THEN <<Head(s)>> \o insert_sorted(Tail(s), x)
         ELSE <<x>> \o s

RECURSIVE sort_ascending(_, _)
sort_ascending(done, todo) ==
    IF todo = <<>> THEN done
    ELSE sort_ascending(insert_sorted(done, Head(todo)), Tail(todo))

\* An ascending sort reversed afterwards, which turns equal keys around
\* (faulty variant of sorted_reverse).
sorted_then_reversed(path_infos) == Reverse(sort_ascending(<<>>, path_infos))

\* sorted(path_infos, key=..., reverse=True): list.sort reverses the list,
\* sorts it stably in ascending order and reverses the result.
sorted_reverse(path_infos) ==
    Reverse(sort_ascending(<<>>, Reverse(path_infos)))

\* s[:k], for negative k too.
slice_to(s, k) ==
    LET stop == IF k >= 0 THEN (IF k < Len(s) THEN k ELSE Len(s))
                ELSE (IF Len(s) + k > 0 THEN Len(s) + k ELSE 0)
    IN  SubSeq(s, 1, stop)

find_sorted_paths(path_infos, k) == slice_to(sorted_reverse(path_infos), k)

\* ---------------------------------------------------------- network metrics
\* One generation of nx.topological_generations: the nodes of `gen` are
\* taken in order, each child's remaining in-degree is decremented, and a
\* child whose count reaches zero joins the next generation and leaves the
\* map.  st = [map, zero].
topo_children(st, children) ==
    LET RECURSIVE go(_, _)
        go(s, cs) ==
            IF cs = <<>> THEN s
            ELSE LET c == Head(cs)
                     d == s.map[c] - 1
                 IN  IF d = 0
                     THEN go([map  |-> [x \in DOMAIN s.map \ {c} |-> s.map[x]],
                              zero |-> Append(s.zero, c)], Tail(cs))
                     ELSE go([s EXCEPT !.map[c] = d], Tail(cs))
    IN  go(st, children)

topo_generation(G, st, gen) ==
    LET RECURSIVE go(_, _)
        go(s, g) ==
            IF g = <<>> THEN s
            ELSE go(topo_children(s, Succ(G, Head(g))), Tail(g))
    IN  go(st, gen)

\* nx.topological_sort(G): [order, unfeasible]; unfeasible stands for the
\* NetworkXUnfeasible raised when nodes are left with in-degree > 0.
topological_sort(G) ==
    LET indegree_map == [v \in {x \in NodeSet(G) : in_degree(G, x) > 0} |->
                             in_degree(G, v)]
        zero_indegree == SelectSeq(G.nodes, LAMBDA v : in_degree(G, v) = 0)
        RECURSIVE loop(_, _, _)
        loop(map, zero, order) ==
            IF zero = <<>>
            THEN [order |-> order, unfeasible |-> DOMAIN map # {}]
            ELSE LET st == topo_generation(G, [map |-> map, zero |-> <<>>], zero)
                 IN  loop(st.map, st.zero, order \o zero)
    IN  loop(indegree_map, zero_indegree, <<>>)

\* nx.is_directed_acyclic_graph(G): the sort ends without NetworkXUnfeasible.
is_directed_acyclic_graph(G) == ~topological_sort(G).unfeasible

\* A centrality value d * (1.0 / (len(G) - 1.0)) as the fraction num/den.
Frac(num, den) == [num |-> num, den |-> den]

\* A centrality normalised by len(G) (faulty variant of in_degree_centrality).
in_degree_centrality_by_len(G) ==
    IF Len(G.nodes) <= 1 THEN [n \in NodeSet(G) |-> Frac(1, 1)]
    ELSE [n \in NodeSet(G) |-> Frac(in_degree(G, n), Len(G.nodes))]

\* nx.in_degree_centrality(G): 1 for every node when len(G) <= 1.
in_degree_centrality(G) ==
    IF Len(G.nodes) <= 1 THEN [n \in NodeSet(G) |-> Frac(1, 1)]
    ELSE [n \in NodeSet(G) |-> Frac(in_degree(G, n), Len(G.nodes) - 1)]

\* nx.out_degree_centrality(G).
out_degree_centrality(G) ==
    IF Len(G.nodes) <= 1 THEN [n \in NodeSet(G) |-> Frac(1, 1)]
    ELSE [n \in NodeSet(G) |-> Frac(out_degree(G, n), Len(G.nodes) - 1)]

\* Lines 203-208: occurrences of each value of a node attribute.
attr_counts(G, field) ==
    [v \in {G.attrs[n][field] : n \in NodeSet(G)} |->
        Cardinality({n \in NodeSet(G) : G.attrs[n][field] = v})]

\* Metrics whose topological_sort is [] on a cyclic graph (faulty variant of
\* analyze_network).
analyze_network_empty_sort(G) ==
    [total_nodes |-> Len(G.nodes),
     total_edges |-> Cardinality(EdgeSet(G)),
     is_dag |-> is_directed_acyclic_graph(G),
     node_types |-> attr_counts(G, "type"),
     node_states |-> attr_counts(G, "state"),
     in_degree_centrality |-> in_degree_centrality(G),
     out_degree_centrality |-> out_degree_centrality(G),
     topological_sort |-> IF is_directed_acyclic_graph(G)
                          THEN [is_none |-> FALSE, value |-> topological_sort(G).order]
                          ELSE [is_none |-> FALSE, value |-> <<>>]]

analyze_network(G) ==
    [total_nodes |-> Len(G.nodes),
     total_edges |-> Cardinality(EdgeSet(G)),
     is_dag |-> is_directed_acyclic_graph(G),
     node_types |-> attr_counts(G, "type"),
     node_states |-> attr_counts(G, "state"),
     in_degree_centrality |-> in_degree_centrality(G),
     out_degree_centrality |-> out_degree_centrality(G),
     topological_sort |-> IF is_directed_acyclic_graph(G)
                          THEN [is_none |-> FALSE, value |-> topological_sort(G).order]
                          ELSE [is_none |-> TRUE, value |-> <<>>]]

\* ------------------------------------------------------------- timing audit
\* Lines 230-236.
no_issues ==
    [missing_start_dates |-> <<>>, missing_target_dates |-> <<>>,
     target_passed_without_close |-> <<>>,
     end_before_predecessor_end |-> <<>>,
     start_before_predecessor_end |-> <<>>]

\* A node reported once however many paths hold it (faulty variant of
\* check_missing_start).
check_missing_start_once(issues, nodes, i, td) ==
    IF ~IsSet(td[nodes[i]].start_date)
       /\ \A j \in 1..Len(issues.missing_start_dates) :
              issues.missing_start_dates[j].node # nodes[i]
    THEN [issues EXCEPT !.missing_start_dates =
              Append(@, [node |-> nodes[i], path |-> nodes])]
    ELSE issues

\* Lines 245-249.
check_missing_start(issues, nodes, i, td) ==
    IF ~IsSet(td[nodes[i]].start_date)
    THEN [issues EXCEPT !.missing_start_dates =
              Append(@, [node |-> nodes[i], path |-> nodes])]
    ELSE issues

\* Lines 252-256: the bucket named missing_target_dates tests closed_date.
check_missing_closed(issues, nodes, i, td) ==
    IF ~IsSet(td[nodes[i]].closed_date)
    THEN [issues EXCEPT !.missing_target_dates =
              Append(@, [node |-> nodes[i], path |-> nodes])]
    ELSE issues

\* datetime.now() read again at every node while time passes, one unit per
\* position (faulty variant of check_target_passed).
check_target_passed_drift(issues, nodes, i, td, today) ==
    LET nd == td[nodes[i]]
    IN  IF IsSet(nd.target_date) /\ nd.target_date < today + (i - 1)
           /\ ~IsSet(nd.closed_date)
        THEN [issues EXCEPT !.target_passed_without_close =
                  Append(@, [node |-> nodes[i], target_date |-> nd.target_date,
                             path |-> nodes])]
        ELSE issues

\* Lines 259-264.
check_target_passed(issues, nodes, i, td, today) ==
    LET nd == td[nodes[i]]
    IN  IF IsSet(nd.target_date) /\ nd.target_date < today /\ ~IsSet(nd.closed_date)
        THEN [issues EXCEPT !.target_passed_without_close =
                  Append(@, [node |-> nodes[i], target_date |-> nd.target_date,
                             path |-> nodes])]
        ELSE issues

\* The first node of the path taken as predecessor (faulty variant of pred_of).
pred_of_first(nodes, i) == nodes[1]

\* pred_node = path_info.nodes[i-1] (line 268).
pred_of(nodes, i) == nodes[i - 1]

\* Lines 273-281.
check_end_before_pred(issues, nodes, i, td) ==
    LET nd == td[nodes[i]]
        pd == td[pred_of(nodes, i)]
    IN  IF IsSet(nd.target_date) /\ IsSet(pd.target_date)
           /\ nd.target_date < pd.target_date
        THEN [issues EXCEPT !.end_before_predecessor_end =
                  Append(@, [node |-> nodes[i], predecessor |-> pred_of(nodes, i),
                             node_date |-> nd.target_date,
                             predecessor_date |-> pd.target_date,
                             path |-> nodes])]
        ELSE issues

\* Lines 284-292.
check_start_before_pred(issues, nodes, i, td) ==
    LET nd == td[nodes[i]]
        pd == td[pred_of(nodes, i)]
    IN  IF IsSet(nd.start_date) /\ IsSet(pd.target_date)
           /\ nd.start_date < pd.target_date
        THEN [issues EXCEPT !.start_before_predecessor_end =
                  Append(@, [node |-> nodes[i], predecessor |-> pred_of(nodes, i),
                             start_date |-> nd.start_date,
                             predecessor_date |-> pd.target_date,
                             path |-> nodes])]
        ELSE issues

\* Lines 239-292: the body of the inner loop for position i (1-based) of a
\* path; a node that is no key of temporal_data is skipped (line 242).
audit_node(issues, nodes, i, td, today) ==
    IF nodes[i] \notin DOMAIN td THEN issues
    ELSE LET a == check_missing_start(issues, nodes, i, td)
             b == check_missing_closed(a, nodes, i, td)
             c == check_target_passed(b, nodes, i, td, today)
         IN  IF i > 1 /\ pred_of(nodes, i) \in DOMAIN td
             THEN check_start_before_pred(
                      check_end_before_pred(c, nodes, i, td), nodes, i, td)
             ELSE c

RECURSIVE audit_path(_, _, _, _, _)
audit_path(issues, nodes, i, td, today) ==
    IF i > Len(nodes) THEN issues
    ELSE audit_path(audit_node(issues, nodes, i, td, today), nodes, i + 1, td, today)

RECURSIVE audit_paths(_, _, _, _)
audit_paths(issues, path_infos, td, today) ==
    IF path_infos = <<>> THEN issues
    ELSE audit_paths(audit_path(issues, Head(path_infos).nodes, 1, td, today),
                     Tail(path_infos), td, today)

\* analyze_path_timing, with `today` the value datetime.now() returned at
\* line 228.
analyze_path_timing(path_infos, td, today) ==
    audit_paths(no_issues, path_infos, td, today)

\* -------------------------------------------------------------------- state
VARIABLES
    pc,             \* the stage reached
    data,           \* the relation mapping read_dag_data returned
    G,              \* the graph
    temporal_data,  \* the temporal mapping, shared and mutated in place
    metrics,        \* the result of analyze_network
    paths,          \* the result of find_paths_with_dates
    k,              \* the max_paths argument of find_sorted_paths
    selected,       \* the result of find_sorted_paths
    audited,        \* the list handed to analyze_path_timing
    today,          \* datetime.now() as read by analyze_path_timing
    timing_issues   \* the result of analyze_path_timing

vars == <<pc, data, G, temporal_data, metrics, paths, k, selected, audited,
          today, timing_issues>>

\* ------------------------------------------------------------------- inputs
\* NodeTemporalInfo.__init__ (data.py 12-18): the degrees start as None.
NodeTemporalInfo(start, target, closed, opportunity) ==
    [start_date |-> start, target_date |-> target, closed_date |-> closed,
     in_degree |-> None, out_degree |-> None, opportunity |-> opportunity]

Records ==
    {NodeTemporalInfo(s, t, c, "opp") : s \in OptDates, t \in OptDates, c \in OptDates}

\* td is a temporal mapping with at most n keys.
IsTemporal(td, n) ==
    \E D \in SUBSET Nodes : Cardinality(D) <= n /\ td \in [D -> Records]

\* The graph with nodes 1..n added in order and the edges E, the successors
\* of each node in ascending order.
GraphOf(n, E) ==
    [nodes |-> [i \in 1..n |-> i],
     adj   |-> [u \in 1..n |-> SetToSeq({v \in 1..n : <<u, v>> \in E})],
     attrs |-> [u \in 1..n |-> NoAttrs]]

\* g is a graph over 1..n for some n <= MaxNodes, self-loops allowed.
IsGraph(g) ==
    \E n \in 0..MaxNodes : \E E \in SUBSET ((1..n) \X (1..n)) : g = GraphOf(n, E)

Chain(n) == {<<i, i + 1>> : i \in 1..(n - 1)}

\* A chain, a cycle and a fan over all the nodes.
DateGraphs ==
    {GraphOf(MaxNodes, Chain(MaxNodes)),
     GraphOf(MaxNodes, Chain(MaxNodes) \cup {<<MaxNodes, 1>>}),
     GraphOf(MaxNodes, {<<1, j>> : j \in 2..MaxNodes})}

\* The graphs whose only edges are self-loops: no path joins two nodes.
LoopGraphs ==
    UNION {{GraphOf(n, {<<i, i>> : i \in S}) : S \in SUBSET (1..n)} : n \in 0..MaxNodes}

\* The lists over Nodes of length at most n.
Lists(n) == UNION {[1..m -> Nodes] : m \in 0..n}

\* d is a relation mapping: at most MaxEntries keys, at most MaxRefs
\* identifiers listed in all, every record with a type and a state.  The
\* identifiers listed are refs, in the order of the rows; cut[2i-1] and
\* cut[2i] are where the predecessors and the successors of key i end.
IsData(d) ==
    \E m \in 0..MaxEntries : \E keys \in [1..m -> Nodes] :
        /\ \A i, j \in 1..m : i # j => keys[i] # keys[j]
        /\ \E refs \in Lists(MaxRefs) : \E cut \in [1..(2 * m) -> 0..Len(refs)] :
              /\ \A x \in 1..(2 * m - 1) : cut[x] <= cut[x + 1]
              /\ IF m = 0 THEN refs = <<>> ELSE cut[2 * m] = Len(refs)
              /\ LET from(x) == IF x = 1 THEN 1 ELSE cut[x - 1] + 1
                 IN  d = [i \in 1..m |->
                            [node |-> keys[i],
                             predecessors |-> SubSeq(refs, from(2 * i - 1), cut[2 * i - 1]),
                             successors |-> SubSeq(refs, from(2 * i), cut[2 * i]),
                             type |-> "Task", state |-> "Active"]]

\* The identifiers listed as predecessor or successor in a relation mapping.
Refs(d) ==
    UNION {Range(d[i].predecessors) \cup Range(d[i].successors) : i \in 1..Len(d)}

\* WORK_ITEM_RELATIONSHIP_TYPE: the two types read_dag_data lists, and one
\* of the types it does not list.
RelationshipTypes == {"Predecessor", "Successor", "Related"}

\* The rows of the data file, as df.iterrows() gives them: the work item,
\* the related identifier, the relationship type and the three dates of
\* the row, parsed.
Rows ==
    [WORK_ITEM_ID : Nodes, WORK_ITEM_RELATED_ID : Nodes,
     WORK_ITEM_RELATIONSHIP_TYPE : RelationshipTypes,
     START_DATETIME : OptDates, TARGET_DATETIME : OptDates,
     CLOSED_DATETIME : OptDates]

\* The place of key n in the relation mapping d, 0 when it has none.
key_index(d, n) ==
    IF \E i \in 1..Len(d) : d[i].node = n
    THEN CHOOSE i \in 1..Len(d) : d[i].node = n
    ELSE 0

\* data.py 64-91, one round of the loop: the work item gets an entry when
\* it has none, the related identifier a temporal record when it has
\* none, and the related identifier is listed for the types Predecessor
\* and Successor only.
read_row(acc, row) ==
    LET w  == row.WORK_ITEM_ID
        r  == row.WORK_ITEM_RELATED_ID
        d1 == IF key_index(acc.dag_data, w) = 0
              THEN Append(acc.dag_data,
                          [node |-> w, predecessors |-> <<>>, successors |-> <<>>,
                           type |-> "Task", state |-> "Active"])
              ELSE acc.dag_data
        t1 == IF r \in DOMAIN acc.temporal_data
              THEN acc.temporal_data
              ELSE [n \in DOMAIN acc.temporal_data \cup {r} |->
                       IF n = r
                       THEN NodeTemporalInfo(row.START_DATETIME, row.TARGET_DATETIME,
                                             row.CLOSED_DATETIME, "opp")
                       ELSE acc.temporal_data[n]]
        i  == key_index(d1, w)
        d2 == IF row.WORK_ITEM_RELATIONSHIP_TYPE = "Predecessor"
              THEN [d1 EXCEPT ![i].predecessors = Append(@, r)]
              ELSE IF row.WORK_ITEM_RELATIONSHIP_TYPE = "Successor"
                   THEN [d1 EXCEPT ![i].successors = Append(@, r)]
                   ELSE d1
    IN  [dag_data |-> d2, temporal_data |-> t1]

RECURSIVE read_rows(_, _)
read_rows(acc, rows) ==
    IF rows = <<>> THEN acc
    ELSE read_rows(read_row(acc, Head(rows)), Tail(rows))

\* read_dag_data on a file with the rows given: (dag_data, temporal_data).
read_dag_data(rows) ==
    read_rows([dag_data |-> <<>>, temporal_data |-> <<>>], rows)

\* (d, td) is what read_dag_data returns for a file of at most MaxRows rows.
IsIngested(d, td) ==
    \E n \in 0..MaxRows : \E rows \in [1..n -> Rows] :
        /\ d = read_dag_data(rows).dag_data
        /\ td = read_dag_data(rows).temporal_data

\* The PathInfos ranked on their own: two paths, any target_date.
RankItems ==
    {PathInfo(p, t, None, None) : p \in {<<1, 2>>, <<2, 1>>}, t \in OptDates}

NoMetrics == [unset |-> TRUE]

Blank ==
    /\ metrics = NoMetrics
    /\ paths = <<>>
    /\ k = 0
    /\ selected = <<>>
    /\ audited = <<>>
    /\ today = None
    /\ timing_issues = no_issues

\* ------------------------------------------------------------------ actions
\* main, line 130: G = create_dag(data)
CreateDag ==
    /\ pc = "start"
    /\ G' = create_dag(data)
    /\ pc' = "built"
    /\ UNCHANGED <<data, temporal_data, metrics, paths, k, selected, audited,
                   today, timing_issues>>

\* metrics = analyze_network(G)
AnalyzeNetwork ==
    /\ pc = "built"
    /\ metrics' = analyze_network(G)
    /\ pc' = "analyzed"
    /\ UNCHANGED <<data, G, temporal_data, paths, k, selected, audited, today,
                   timing_issues>>

\* paths = find_paths_with_dates(G, temporal_data)
FindPathsWithDates ==
    /\ pc = "analyzed"
    /\ paths' = find_paths_with_dates(G, temporal_data)
    /\ temporal_data' = temporal_after_find_paths(G, temporal_data)
    /\ pc' = "enumerated"
    /\ UNCHANGED <<data, G, metrics, k, selected, audited, today, timing_issues>>

\* main, lines 150-151: find_sorted_paths(paths, max_paths=max_paths)
FindSortedPaths ==
    /\ pc = "enumerated"
    /\ k' = max_paths
    /\ selected' = find_sorted_paths(paths, max_paths)
    /\ pc' = "ranked"
    /\ UNCHANGED <<data, G, temporal_data, metrics, paths, audited, today,
                   timing_issues>>

\* print_timing_inconsistencies, lines 87-111, on the mapping issues:
\* `for node in timing_issues` takes the bucket names, and line 91 asks
\* timing_issues[node] for .items().  Every value of the mapping is a list
\* (paths.py 230-236) and a list has no .items, so the first round of the
\* loop raises AttributeError; only a mapping without keys is printed.
print_timing_outcome(issues) ==
    IF DOMAIN issues = {} THEN "printed" ELSE "raised"

\* main, line 161, and print_timing_inconsistencies: analyze_path_timing is
\* given `paths`, and its result goes through the printing loop.  The
\* exception is caught nowhere: lines 163-176 (plot_dag) follow only a
\* mapping that was printed.
PrintTimingInconsistencies ==
    /\ pc = "ranked"
    /\ \E t \in 1..(MaxDate + 1) :
           /\ today' = t
           /\ timing_issues' = analyze_path_timing(paths, temporal_data, t)
    /\ audited' = paths
    /\ pc' = print_timing_outcome(timing_issues')
    /\ UNCHANGED <<data, G, temporal_data, metrics, paths, k, selected>>

\* A caller's find_sorted_paths(paths, max_paths=n).
RankCall ==
    /\ pc = "enumerated"
    /\ \E n \in (0..MaxK) \cup {max_paths} :
           /\ k' = n
           /\ selected' = find_sorted_paths(paths, n)
    /\ pc' = "ranked"
    /\ UNCHANGED <<data, G, temporal_data, metrics, paths, audited, today,
                   timing_issues>>

\* A caller's analyze_path_timing(selected, temporal_data), datetime.now()
\* returning t.
AuditCall ==
    /\ pc = "ranked"
    /\ \E t \in 1..(MaxDate + 1) :
           /\ today' = t
           /\ timing_issues' = analyze_path_timing(selected, temporal_data, t)
    /\ audited' = selected
    /\ pc' = "audited"
    /\ UNCHANGED <<data, G, temporal_data, metrics, paths, k, selected>>

\* ---------------------------------------------------------- the run of main
Init ==
    /\ Blank
    /\ IsIngested(data, temporal_data)
    /\ G = EmptyGraph
    /\ pc = "start"

Next ==
    \/ CreateDag
    \/ AnalyzeNetwork
    \/ FindPathsWithDates
    \/ FindSortedPaths
    \/ PrintTimingInconsistencies

Spec == Init /\ [][Next]_vars

\* ------------------------------- metrics and enumeration on every graph
InitGraph ==
    /\ Blank
    /\ data = <<>>
    /\ IsGraph(G)
    /\ temporal_data = <<>>
    /\ pc = "built"

NextGraph == AnalyzeNetwork \/ FindPathsWithDates

SpecGraph == InitGraph /\ [][NextGraph]_vars

\* ------------------------------------ aggregation over every temporal mapping
InitDates ==
    /\ Blank
    /\ data = <<>>
    /\ G \in DateGraphs
    /\ IsTemporal(temporal_data, MaxNodes)
    /\ metrics = NoMetrics
    /\ pc = "analyzed"

NextDates == FindPathsWithDates

SpecDates == InitDates /\ [][NextDates]_vars

\* ------------------------------------------------- ranking of every list
InitRank ==
    /\ metrics = NoMetrics
    /\ k = 0
    /\ selected = <<>>
    /\ audited = <<>>
    /\ today = None
    /\ timing_issues = no_issues
    /\ data = <<>>
    /\ G = EmptyGraph
    /\ temporal_data = <<>>
    /\ \E n \in 0..MaxList : paths \in [1..n -> RankItems]
    /\ pc = "enumerated"

NextRank == RankCall

SpecRank == InitRank /\ [][NextRank]_vars

\* --------------------------------- enumeration, ranking and audit in a row
InitPipe ==
    /\ Blank
    /\ data = <<>>
    /\ G \in DateGraphs \cup LoopGraphs
    /\ IsTemporal(temporal_data, MaxMapped)
    /\ pc = "analyzed"

NextPipe == FindPathsWithDates \/ RankCall \/ AuditCall

SpecPipe == InitPipe /\ [][NextPipe]_vars

\* ------------------------------------- create_dag on every relation mapping
InitBuild ==
    /\ Blank
    /\ IsData(data)
    /\ temporal_data = <<>>
    /\ G = EmptyGraph
    /\ pc = "start"

NextBuild == CreateDag

SpecBuild == InitBuild /\ [][NextBuild]_vars

\* =================================================================== claims
\* ----------------------------------------------------------------------- C1
\* p is a simple directed path of g between distinct nodes.
IsSimplePath(g, p) ==
    /\ Len(p) >= 2
    /\ \A i \in 1..(Len(p) - 1) : HasEdge(g, p[i], p[i + 1])
    /\ \A i \in 1..Len(p) : p[i] \in NodeSet(g)
    /\ \A i, j \in 1..Len(p) : i # j => p[i] # p[j]

\* The sequences of m+1 nodes that extend a sequence of S by one node.
Extended(g, S) == {Append(p, v) : p \in S, v \in NodeSet(g)}

RECURSIVE SimplePathsUpTo(_, _, _)
\* The simple paths of at most n nodes, S being those of m nodes.
SimplePathsUpTo(g, S, m) ==
    IF m >= Len(g.nodes) \/ S = {} THEN S
    ELSE S \cup SimplePathsUpTo(g, {p \in Extended(g, S) : IsSimplePath(g, p)}, m + 1)

\* Every simple path of g: a prefix of a simple path of three or more nodes
\* is simple, so they are found by extending simple paths node by node.
SimplePathSet(g) ==
    SimplePathsUpTo(g, {p \in [1..2 -> NodeSet(g)] : IsSimplePath(g, p)}, 2)

\* C1: the node sequences find_paths_with_dates returns are exactly the
\* simple directed paths of G between distinct nodes: each returned path has
\* at least 2 nodes, no repeated node and only edges of G, and every simple
\* path appears exactly once.
C1_ExactlyTheSimplePaths ==
    pc = "enumerated" =>
        LET returned == {paths[i].nodes : i \in 1..Len(paths)}
        IN  /\ returned = SimplePathSet(G)
            /\ Cardinality(returned) = Len(paths)

\* A graph with a cycle and a self-loop in which two nodes are joined by
\* more than one simple path, one of them through every node.
C1_Witness ==
    /\ pc = "enumerated"
    /\ Len(G.nodes) = MaxNodes
    /\ \E n \in NodeSet(G) : <<n, n>> \in EdgeSet(G)
    /\ \E i, j \in 1..Len(paths) :
           /\ i # j
           /\ paths[i].nodes[1] = paths[j].nodes[1]
           /\ paths[i].nodes[Len(paths[i].nodes)] = paths[j].nodes[Len(paths[j].nodes)]
           /\ Len(paths[i].nodes) = MaxNodes
    /\ \E i \in 1..Len(paths) : <<paths[i].nodes[2], paths[i].nodes[1]>> \in EdgeSet(G)

\* ----------------------------------------------------------------------- C7
\* The pairs joined by a directed walk of at least one edge: R grown n
\* times by one more edge of E.
RECURSIVE Closure(_, _, _, _)
Closure(V, E, R, n) ==
    IF n = 0 THEN R
    ELSE Closure(V, E,
                 R \cup {x \in V \X V :
                            \E b \in V : <<x[1], b>> \in R /\ <<b, x[2]>> \in E},
                 n - 1)

HasCycle(g) ==
    LET reach == Closure(NodeSet(g), EdgeSet(g), EdgeSet(g), Len(g.nodes))
    IN  \E n \in NodeSet(g) : <<n, n>> \in reach

Position(s, x) == CHOOSE i \in 1..Len(s) : s[i] = x

\* C7: is_dag is true exactly when the graph has no directed cycle (a
\* self-loop is one); then topological_sort holds every node exactly once,
\* the source of every edge before its target; on a cyclic graph it is
\* None, not an empty list, and on the empty graph it is the empty list.
C7_DagAndTopologicalSort ==
    pc = "analyzed" =>
        LET ts == metrics.topological_sort
            E  == EdgeSet(G)
        IN  /\ metrics.is_dag = ~HasCycle(G)
            /\ metrics.is_dag =>
                   /\ ~ts.is_none
                   /\ Len(ts.value) = Len(G.nodes)
                   /\ Range(ts.value) = NodeSet(G)
                   /\ \A e \in E :
                          Position(ts.value, e[1]) < Position(ts.value, e[2])
            /\ ~metrics.is_dag => ts.is_none
            /\ G.nodes = <<>> => ts = [is_none |-> FALSE, value |-> <<>>]

\* An acyclic graph over every node in which the sort has to reorder: an
\* edge runs from a later-inserted node to an earlier one.
C7_Witness ==
    /\ pc = "analyzed"
    /\ metrics.is_dag
    /\ Len(G.nodes) = MaxNodes
    /\ Cardinality(EdgeSet(G)) >= 2
    /\ \E e \in EdgeSet(G) : e[1] > e[2]
    /\ Len(metrics.topological_sort.value) = MaxNodes

\* ----------------------------------------------------------------------- C8
\* The fraction f equals num/den.
FracIs(f, num, den) == f.num * den = num * f.den

DegreeNormalised(g, m) ==
    \A n \in NodeSet(g) :
        /\ FracIs(m.in_degree_centrality[n], in_degree(g, n), Len(g.nodes) - 1)
        /\ FracIs(m.out_degree_centrality[n], out_degree(g, n), Len(g.nodes) - 1)

\* C8 as stated: for |V| > 1 each centrality is the degree over |V|-1, and
\* on a single-node graph all centralities are 0.
C8_SingleNodeZero ==
    pc = "analyzed" =>
        /\ Len(G.nodes) > 1 => DegreeNormalised(G, metrics)
        /\ Len(G.nodes) = 1 =>
               \A n \in NodeSet(G) :
                   /\ FracIs(metrics.in_degree_centrality[n], 0, 1)
                   /\ FracIs(metrics.out_degree_centrality[n], 0, 1)

\* C8 amended: for |V| > 1 each centrality is the degree over |V|-1, and on
\* a single-node graph all centralities are 1.
C8_SingleNodeOne ==
    pc = "analyzed" =>
        /\ Len(G.nodes) > 1 => DegreeNormalised(G, metrics)
        /\ Len(G.nodes) = 1 =>
               \A n \in NodeSet(G) :
                   /\ FracIs(metrics.in_degree_centrality[n], 1, 1)
                   /\ FracIs(metrics.out_degree_centrality[n], 1, 1)

\* The metrics of a single-node graph without edges have been computed.
C8_Witness ==
    /\ pc = "analyzed"
    /\ Len(G.nodes) = 1
    /\ EdgeSet(G) = {}
    /\ DOMAIN metrics.in_degree_centrality = {1}

\* ----------------------------------------------------------------------- C2
\* The values of a date field over the nodes of path p that are keys of the
\* temporal mapping and have the field set.
FieldValues(p, td, field) ==
    {td[n][field] : n \in {x \in Range(p) \cap DOMAIN td : td[x][field] # None}}

Greatest(S) == IF S = {} THEN None ELSE CHOOSE x \in S : \A y \in S : y <= x

Least(S) == IF S = {} THEN None ELSE CHOOSE x \in S : \A y \in S : x <= y

\* C2: each PathInfo carries the maximum target_date, the minimum
\* start_date and the maximum closed_date over the nodes of its path that
\* are in the temporal mapping and have the field set, None when no node
\* supplies it; nodes absent from the mapping contribute nothing and the
\* call returns one PathInfo per enumerated path.
C2_PathDateEnvelope ==
    pc = "enumerated" =>
        /\ Len(paths) = Len(all_paths(G))
        /\ \A i \in 1..Len(paths) :
               LET p == paths[i].nodes
               IN  /\ paths[i].target_date = Greatest(FieldValues(p, temporal_data, "target_date"))
                   /\ paths[i].start_date = Least(FieldValues(p, temporal_data, "start_date"))
                   /\ paths[i].closed_date = Greatest(FieldValues(p, temporal_data, "closed_date"))

\* A path through every node: its first node is absent from the mapping,
\* the next has the latest target_date and the earliest start_date, the
\* last has other dates, and no node of the path has a closed_date.
C2_Witness ==
    /\ pc = "enumerated"
    /\ \E i \in 1..Len(paths) :
           LET p == paths[i].nodes
           IN  /\ Len(p) = MaxNodes
               /\ p[1] \notin DOMAIN temporal_data
               /\ p[2] \in DOMAIN temporal_data /\ p[Len(p)] \in DOMAIN temporal_data
               /\ temporal_data[p[2]].target_date = MaxDate
               /\ temporal_data[p[Len(p)]].target_date = 1
               /\ temporal_data[p[2]].start_date = 1
               /\ temporal_data[p[Len(p)]].start_date = MaxDate
               /\ paths[i].target_date = MaxDate
               /\ paths[i].start_date = 1
               /\ paths[i].closed_date = None

\* ----------------------------------------------------------------------- C3
\* x ranks strictly before y: a later target_date first, a missing one last.
RanksBefore(x, y) ==
    /\ x.target_date # None
    /\ y.target_date = None \/ x.target_date > y.target_date

SameRank(x, y) == ~RanksBefore(x, y) /\ ~RanksBefore(y, x)

\* The place of input element i in the stable descending order.
RankOf(xs, i) ==
    1 + Cardinality({j \in 1..Len(xs) : RanksBefore(xs[j], xs[i])})
      + Cardinality({j \in 1..(i - 1) : SameRank(xs[j], xs[i])})

Min(a, b) == IF a <= b THEN a ELSE b

\* C3: for a list of n PathInfos and K >= 0, find_sorted_paths returns the
\* first min(K, n) elements of the input sorted stably by target_date
\* descending, a missing target_date after every dated path, equal
\* target_dates (both missing included) in input order.
C3_StableTopK ==
    pc = "ranked" =>
        /\ Len(selected) = Min(k, Len(paths))
        /\ \A i \in 1..Len(paths) :
               RankOf(paths, i) <= Len(selected) =>
                   selected[RankOf(paths, i)] = paths[i]

\* Three PathInfos ranked with K = 2: an undated one first in the input, then
\* two different ones with the same target_date, which come out in input
\* order while the undated one is cut off.
C3_Witness ==
    /\ pc = "ranked"
    /\ k = 2
    /\ Len(paths) = 3
    /\ paths[1].target_date = None
    /\ paths[2].target_date = paths[3].target_date
    /\ paths[2].target_date # None
    /\ paths[2] # paths[3]
    /\ selected = <<paths[2], paths[3]>>

\* ----------------------------------------------------------- C4, C5, C6
\* The (path, position) occurrences of the audited collection.
Occurrences == {o \in (1..Len(audited)) \X Nodes : o[2] <= Len(audited[o[1]].nodes)}

NodesAt(o) == audited[o[1]].nodes

NodeAt(o) == NodesAt(o)[o[2]]

\* The entries of a bucket recorded for occurrence o; the audited paths are
\* pairwise different and simple, so node and path name the occurrence.
EntriesFor(bucket, o) ==
    {j \in 1..Len(bucket) : bucket[j].node = NodeAt(o) /\ bucket[j].path = NodesAt(o)}

\* Every entry of the bucket belongs to an occurrence; an occurrence has one
\* entry when it is in S and none otherwise.
BucketIs(bucket, S) ==
    /\ \A o \in Occurrences :
           Cardinality(EntriesFor(bucket, o)) = IF o \in S THEN 1 ELSE 0
    /\ \A j \in 1..Len(bucket) : \E o \in Occurrences : j \in EntriesFor(bucket, o)

HasPredRecord(o) ==
    /\ o[2] > 1
    /\ NodeAt(o) \in DOMAIN temporal_data
    /\ NodesAt(o)[o[2] - 1] \in DOMAIN temporal_data

EndsBeforePred(o) ==
    /\ HasPredRecord(o)
    /\ temporal_data[NodeAt(o)].target_date # None
    /\ temporal_data[NodesAt(o)[o[2] - 1]].target_date # None
    /\ temporal_data[NodeAt(o)].target_date
           < temporal_data[NodesAt(o)[o[2] - 1]].target_date

StartsBeforePredEnd(o) ==
    /\ HasPredRecord(o)
    /\ temporal_data[NodeAt(o)].start_date # None
    /\ temporal_data[NodesAt(o)[o[2] - 1]].target_date # None
    /\ temporal_data[NodeAt(o)].start_date
           < temporal_data[NodesAt(o)[o[2] - 1]].target_date

\* C4: an entry for path[i] is in end_before_predecessor_end iff i is not
\* the first position, path[i] and path[i-1] are both in the temporal
\* mapping, both have target_date set and path[i]'s is strictly earlier;
\* likewise start_before_predecessor_end with path[i].start_date against
\* path[i-1].target_date.  Each entry names path[i-1] as predecessor.
C4_PredecessorIssues ==
    pc = "audited" =>
        /\ BucketIs(timing_issues.end_before_predecessor_end,
                    {o \in Occurrences : EndsBeforePred(o)})
        /\ BucketIs(timing_issues.start_before_predecessor_end,
                    {o \in Occurrences : StartsBeforePredEnd(o)})
        /\ \A o \in Occurrences :
               /\ \A j \in EntriesFor(timing_issues.end_before_predecessor_end, o) :
                      timing_issues.end_before_predecessor_end[j].predecessor
                          = NodesAt(o)[o[2] - 1]
               /\ \A j \in EntriesFor(timing_issues.start_before_predecessor_end, o) :
                      timing_issues.start_before_predecessor_end[j].predecessor
                          = NodesAt(o)[o[2] - 1]

\* A path of three nodes whose first node is absent from the mapping has
\* been audited: its second node raises no predecessor issue, its third
\* raises both against the second.
C4_Witness ==
    /\ pc = "audited"
    /\ \E o \in Occurrences :
           /\ o[2] = 3
           /\ NodesAt(o)[1] \notin DOMAIN temporal_data
           /\ EndsBeforePred(o)
           /\ StartsBeforePredEnd(o)
           /\ EntriesFor(timing_issues.end_before_predecessor_end, o) # {}
           /\ EntriesFor(timing_issues.start_before_predecessor_end, o) # {}

TargetPassedOpen(o) ==
    /\ NodeAt(o) \in DOMAIN temporal_data
    /\ temporal_data[NodeAt(o)].target_date # None
    /\ temporal_data[NodeAt(o)].target_date < today
    /\ temporal_data[NodeAt(o)].closed_date = None

\* C5: a node occurrence is in target_passed_without_close iff the node is
\* in the temporal mapping, its target_date is set and strictly before the
\* one instant `today` read at the start of the call, and its closed_date is
\* absent; never when closed_date is set.
C5_TargetPassedWithoutClose ==
    pc = "audited" =>
        BucketIs(timing_issues.target_passed_without_close,
                 {o \in Occurrences : TargetPassedOpen(o)})

\* One audit in which a node whose target_date has passed and that is not
\* closed is reported, while a later node of the same path whose target_date
\* has passed as well, but which is closed, is not.
C5_Witness ==
    /\ pc = "audited"
    /\ \E o, q \in Occurrences :
           /\ o[1] = q[1] /\ o[2] < q[2]
           /\ TargetPassedOpen(o)
           /\ EntriesFor(timing_issues.target_passed_without_close, o) # {}
           /\ NodeAt(q) \in DOMAIN temporal_data
           /\ temporal_data[NodeAt(q)].target_date # None
           /\ temporal_data[NodeAt(q)].target_date < today
           /\ temporal_data[NodeAt(q)].closed_date # None
           /\ EntriesFor(timing_issues.target_passed_without_close, q) = {}

EntriesOfNode(bucket, n) == {j \in 1..Len(bucket) : bucket[j].node = n}

\* C6: for every node n of the temporal mapping the number of
\* missing_start_dates entries for n is the number of (path, position)
\* occurrences of n in the audited collection when n's start_date is absent
\* and 0 when it is set; a node absent from the mapping has no entry in any
\* bucket.
C6_MissingStartPerOccurrence ==
    pc = "audited" =>
        /\ \A n \in DOMAIN temporal_data :
               Cardinality(EntriesOfNode(timing_issues.missing_start_dates, n))
                   = IF temporal_data[n].start_date = None
                     THEN Cardinality({o \in Occurrences : NodeAt(o) = n})
                     ELSE 0
        /\ \A n \in Nodes \ DOMAIN temporal_data :
               \A b \in DOMAIN timing_issues : EntriesOfNode(timing_issues[b], n) = {}

\* A node without start_date audited in two paths, first in one and not
\* first in the other, with a node absent from the mapping on a path.
C6_Witness ==
    /\ pc = "audited"
    /\ \E o, q \in Occurrences :
           /\ o[1] # q[1]
           /\ NodeAt(o) = NodeAt(q)
           /\ o[2] = 1 /\ q[2] > 1
           /\ NodeAt(o) \in DOMAIN temporal_data
           /\ temporal_data[NodeAt(o)].start_date = None
           /\ Cardinality(EntriesOfNode(timing_issues.missing_start_dates, NodeAt(o))) >= 2
    /\ \E o \in Occurrences : NodeAt(o) \notin DOMAIN temporal_data

\* ---------------------------------------------------------------------- C10
NoSimplePath(g) == \A e \in EdgeSet(g) : e[1] = e[2]

BucketNames ==
    {"missing_start_dates", "missing_target_dates", "target_passed_without_close",
     "end_before_predecessor_end", "start_before_predecessor_end"}

\* C10: on a graph with no simple path between distinct nodes
\* find_paths_with_dates returns the empty list, find_sorted_paths returns
\* the empty list for any K, and analyze_path_timing returns exactly the
\* five buckets, each empty.
C10_EmptyPathSet ==
    NoSimplePath(G) =>
        /\ pc \in {"enumerated", "ranked", "audited"} => paths = <<>>
        /\ pc \in {"ranked", "audited"} => selected = <<>>
        /\ pc = "audited" =>
               /\ DOMAIN timing_issues = BucketNames
               /\ \A b \in BucketNames : timing_issues[b] = <<>>

\* The audit has run for a graph of several nodes without any edge, with
\* temporal records that lack dates, after a ranking with K > 0.
C10_Witness ==
    /\ pc = "audited"
    /\ Len(G.nodes) >= 2
    /\ EdgeSet(G) = {}
    /\ k > 0
    /\ \E n \in DOMAIN temporal_data : temporal_data[n].start_date = None

\* ----------------------------------------------------------------------- C9
\* C9: in main the stages run in the order graph build, path enumeration,
\* ranking, timing audit, and the list handed to the timing auditor is the
\* ranked top-K list find_sorted_paths returned.
C9_AuditsRankedSubset ==
    pc = "raised" =>
        /\ G = create_dag(data)
        /\ selected = find_sorted_paths(paths, max_paths)
        /\ audited = selected

\* ---------------------------------------------------------------------- C11
\* The keys of a relation mapping.
Keys(d) == {d[i].node : i \in 1..Len(d)}

\* The ordered pairs a relation mapping refers to: (p, n) for p a
\* predecessor of n, (n, s) for s a successor of n.
ReferredPairs(d) ==
    UNION {{<<d[i].predecessors[j], d[i].node>> : j \in 1..Len(d[i].predecessors)}
           \cup {<<d[i].node, d[i].successors[j]>> : j \in 1..Len(d[i].successors)}
           : i \in 1..Len(d)}

NoRepeat(s) == Cardinality(Range(s)) = Len(s)

\* C11: the graph create_dag returns has as nodes exactly the keys and the
\* identifiers listed as predecessor or successor, as edges exactly the
\* pairs (p, n) and (n, s) referred to, and one edge per ordered pair however
\* often the pair is referred to; self-references and duplicates included.
C11_NodesAndEdges ==
    pc = "built" =>
        /\ NodeSet(G) = Keys(data) \cup Refs(data)
        /\ EdgeSet(G) = ReferredPairs(data)
        /\ NoRepeat(G.nodes)
        /\ \A u \in NodeSet(G) : NoRepeat(G.adj[u])

\* The pair (p, n) is listed once as successor of p and once as predecessor
\* of n, and the graph holds it once.
C11_Witness ==
    /\ pc = "built"
    /\ \E i, j \in 1..Len(data) :
           /\ i # j
           /\ data[j].node \in Range(data[i].successors)
           /\ data[i].node \in Range(data[j].predecessors)
           /\ G.adj[data[i].node] = <<data[j].node>>

\* ---------------------------------------------------------------------- C12
\* n lies on one of the enumerated paths ps.
OnSomePath(ps, n) == \E i \in 1..Len(ps) : n \in Range(ps[i].nodes)

EdgesInto(g, n) == Cardinality({e \in EdgeSet(g) : e[2] = n})

EdgesOutOf(g, n) == Cardinality({e \in EdgeSet(g) : e[1] = n})

\* C12: find_paths_with_dates leaves the temporal mapping with the same
\* records, their dates and opportunity unchanged; the record of a node on
\* an enumerated path holds the node's in- and out-degree in the graph, and
\* the record of a node on no enumerated path keeps its degree fields.
C12_DegreeWriteBack ==
    [][FindPathsWithDates =>
          /\ DOMAIN temporal_data' = DOMAIN temporal_data
          /\ \A n \in DOMAIN temporal_data :
                /\ temporal_data'[n].start_date = temporal_data[n].start_date
                /\ temporal_data'[n].target_date = temporal_data[n].target_date
                /\ temporal_data'[n].closed_date = temporal_data[n].closed_date
                /\ temporal_data'[n].opportunity = temporal_data[n].opportunity
                /\ DOMAIN temporal_data'[n] = DOMAIN temporal_data[n]
                /\ IF OnSomePath(paths', n)
                   THEN /\ temporal_data'[n].in_degree = EdgesInto(G, n)
                        /\ temporal_data'[n].out_degree = EdgesOutOf(G, n)
                   ELSE /\ temporal_data'[n].in_degree = temporal_data[n].in_degree
                        /\ temporal_data'[n].out_degree = temporal_data[n].out_degree
      ]_vars

\* After the enumeration one record of a node on a path holds its degrees
\* and the record of a node of the graph on no path still has none.
C12_Witness ==
    /\ pc = "enumerated"
    /\ \E n, m \in DOMAIN temporal_data :
           /\ OnSomePath(paths, n)
           /\ temporal_data[n].in_degree = 1
           /\ temporal_data[n].out_degree = 0
           /\ m \in NodeSet(G)
           /\ ~OnSomePath(paths, m)
           /\ EdgesInto(G, m) = 1
           /\ temporal_data[m].in_degree = None

\* ---------------------------------------------------------------------- C13
\* C13: a run of main ends normally: print_timing_inconsistencies goes
\* through the five-bucket mapping of analyze_path_timing without raising,
\* whether the buckets are empty or not, and the run goes on to plot_dag.
C13_PrintsWithoutRaising ==
    pc # "raised"

====
